---- MODULE Spec2Model ----
(***************************************************************************)
(* Model of the relay blob store.  The repository holds two servers:       *)
(*                                                                         *)
(*   src/app.js            typed store: POST /save/:type/:userId/:objectId,*)
(*                         GET /fetch/:type/:userId, GET /object/:objectId,*)
(*                         table `objects` with a random primary key `id`. *)
(*   src/unnamed/part_000  content-addressed store: POST /save/:userId,    *)
(*                         GET /fetch/:userId/:page, GET /server, table    *)
(*                         `objects` with primary key objectId.            *)
(*                                                                         *)
(* Each server owns its own data/storage.db, so each has a table variable  *)
(* (objects for app.js, objectsB for part_000); `server` says which of the *)
(* two programs the behaviour runs.                                        *)
(*                                                                         *)
(* Time is counted in days: every time constant of the code is a whole     *)
(* number of days (25 days, 10 days, 24 hours) and the code only compares  *)
(* and subtracts timestamps.  getTTLTimestamp uses Date.setDate in local   *)
(* time; the container of the repository (FROM node:slim, no TZ) runs in   *)
(* UTC, where setDate(getDate() - 25) is exactly 25 days.                  *)
(*                                                                         *)
(* Text is modelled by TLA+ strings; Len, \o and SubSeq act on them as on  *)
(* character sequences.                                                    *)
(***************************************************************************)
EXTENDS Integers, Sequences, FiniteSets, Bags, TLC

VARIABLES
    server,     \* the program that runs: "app" (src/app.js) or "part_000"
    now,        \* the clock (Date.now()), in days
    objects,    \* app.js: table objects, a bag of rows (objectId, userId, type, data,
                \* created_at); rows that differ only in the random id are copies
    objectsB,   \* part_000: table objects, a set of rows with objectId as primary key
    nextSweep,  \* due time of the setInterval timer of the running process
    running,    \* whether the node process is alive
    res         \* the outcome of the handler that ran last at this time (response, log line)

vars == <<server, now, objects, objectsB, nextSweep, running, res>>

---------------------------------------------------------------------------
(* Bounds of the model *)

\* the value of nextSweep while no process runs, and with it no timer
NoTimer == 0 - 1

\* the clock stops here
MaxNow == 26
\* a table holds at most this many rows
MaxRows == 2
\* a table of the read-only specification holds up to this many rows that differ
\* only in the random id (more than one page of them)
MaxCopies == 11

---------------------------------------------------------------------------
(* Program constants (times in days) *)

\* app.js: now.setDate(now.getDate() - 25)
TTL_DAYS == 25
\* app.js, part_000: expiresAt = now + 25 * 24 * 60 * 60 * 1000
EXPIRES_DAYS == 25
\* part_000: tenDaysAgo = now - 10 * 24 * 60 * 60 * 1000
CLEANUP_DAYS_B == 10
\* setInterval(..., 24 * 60 * 60 * 1000)
INTERVAL_DAYS == 1
\* app.js: const limit = 10
limit == 10
\* part_000: const limit = 30
limitB == 30
\* validateType: type.length > 20
MaxTypeLen == 20
\* userId.length !== 64
HashLen == 64

---------------------------------------------------------------------------
(* Text helpers *)

Lower == {"a","b","c","d","e","f","g","h","i","j","k","l","m",
          "n","o","p","q","r","s","t","u","v","w","x","y","z"}
Upper == {"A","B","C","D","E","F","G","H","I","J","K","L","M",
          "N","O","P","Q","R","S","T","U","V","W","X","Y","Z"}
Digit == {"0","1","2","3","4","5","6","7","8","9"}
LowerHexDigit == Digit \cup {"a","b","c","d","e","f"}

CharAt(s, i) == SubSeq(s, i, i)

\* the regular expression without its anchors, /[a-zA-Z0-9_]+/ (a variant of
\* MatchesWord used to test the properties)
MatchesWord_Unanchored(s) ==
    \E i \in 1..Len(s) : CharAt(s, i) \in Lower \cup Upper \cup Digit \cup {"_"}

\* the regular expression /^[a-zA-Z0-9_]+$/
MatchesWord(s) ==
    /\ Len(s) >= 1
    /\ \A i \in 1..Len(s) : CharAt(s, i) \in Lower \cup Upper \cup Digit \cup {"_"}

\* the decimal digit a character stands for, and back
digitValue(c) == (CHOOSE i \in 1..10 : CharAt("0123456789", i) = c) - 1
digitChar(n) == CharAt("0123456789", n + 1)

---------------------------------------------------------------------------
(* Inputs *)

Alice == "alice"
\* the SHA-256 digest of "alice", hex encoded
HexAlice == "2bd806c97f0e00af1a1fc3328fa763a9269723c8db8fac4f93af71db186d6e90"
\* the SHA-256 digest of HexAlice, hex encoded
HexHexAlice == "77555306307cbe22a6ee527f56c73377eebe0c6f0e649d393d917fa96fea30ed"
\* 64 characters that are not hexadecimal digits
Z64 == "ZZZZZZZZZZZZZZZZZZZZZZZZZZZZZZZZZZZZZZZZZZZZZZZZZZZZZZZZZZZZZZZZ"

\* app.js
UserIds == {Alice, HexAlice, Z64}
Types == {"note", "", "bad tag!", "a_21_character_type__"}
ObjectIds == {"e1"}
\* raw request bodies (Buffers)
Bodies == {"", "a", "bc"}
\* values of the page query parameter ("" stands for a missing parameter)
PageQueries == {"", "2", "-1"}
\* the times at which save requests arrive
SaveTimes == {0, 1}

\* part_000
UserIdsB == {Alice, HexAlice}
\* parsed JSON request bodies (express.json): objects, as sequences of <<key, digit>>
BodiesB == {<< >>, << <<"a", 1>> >>}
\* values of the :page route parameter
PageParams == {"1", "2", "-1"}

---------------------------------------------------------------------------
(* crypto.createHash("sha256").update(s).digest("hex"), tabulated on the    *)
(* inputs of the model with the digests SHA-256 gives.                      *)

sha256hex(s) ==
    CASE s = "alice" -> HexAlice
      [] s = HexAlice -> HexHexAlice
      [] s = Z64 ->
           "cc7321cce5e4409bd8077d58422e1214969059bbd40b4eeb0de0a642f40f7282"
      [] s = "{}" \o HexAlice ->
           "f1cf5bcf6168f91e0b52075af567a15e9ca585022606acc2c6b1dc112fbaf604"
      [] s = "{}" \o HexHexAlice ->
           "8baa3223c31d0391835dc6851ef6389cbae6c8c6c705f098f4518f766255d916"
      [] s = "{\"a\":1}" \o HexAlice ->
           "2b7b150ac88b4d3fdd9a5c83a7061e252b939421a03b2d2e7fe9534ffaf66f7e"
      [] s = "{\"a\":1}" \o HexHexAlice ->
           "ed21fdc444b53ee7d5ebfd5fc547b60ecb6685f9737b492dcd33be9bf602ce8f"

---------------------------------------------------------------------------
(* Helpers shared by the two servers *)

\* LIMIT ? OFFSET ? (SQLite reads a negative OFFSET as 0)
limitOffset(s, lim, off) ==
    LET o == IF off < 0 THEN 0 ELSE off
        last == IF o + lim < Len(s) THEN o + lim ELSE Len(s)
    IN  SubSeq(s, o + 1, last)

\* Math.floor(count / lim) (a variant of ceilDiv used to test the properties)
ceilDiv_Floor(count, lim) == count \div lim

\* Math.ceil(count / lim)
ceilDiv(count, lim) == (count + lim - 1) \div lim

RECURSIVE digitsPrefix(_, _, _)
digitsPrefix(s, i, acc) ==
    IF i <= Len(s) /\ CharAt(s, i) \in Digit
    THEN digitsPrefix(s, i + 1, acc * 10 + digitValue(CharAt(s, i)))
    ELSE acc

\* parseInt(s), base 10: the integer the string starts with (an optional sign, then
\* decimal digits); NaN when it starts with none
parseInt(s) ==
    LET signed == Len(s) >= 1 /\ CharAt(s, 1) \in {"-", "+"}
        first  == IF signed THEN 2 ELSE 1
        mag    == digitsPrefix(s, first, 0)
    IN  IF first <= Len(s) /\ CharAt(s, first) \in Digit
        THEN [nan |-> FALSE,
              value |-> IF signed /\ CharAt(s, 1) = "-" THEN 0 - mag ELSE mag]
        ELSE [nan |-> TRUE, value |-> 0]

\* parseInt(...) || 1: NaN and 0 are falsy
pageOf(text) ==
    IF parseInt(text).nan \/ parseInt(text).value = 0 THEN 1 ELSE parseInt(text).value

---------------------------------------------------------------------------
(* app.js *)

\* validateType without the test type.length > 20 (a variant of validateTypeError
\* used to test the properties)
validateTypeError_NoMaxLength(type) ==
    IF Len(type) = 0
    THEN "Type must be a string between 1 and 20 characters"
    ELSE IF ~MatchesWord(type)
    THEN "Type must contain only letters, numbers, and underscores"
    ELSE ""

\* validateType: the error it throws, or "" when it returns the type
validateTypeError(type) ==
    IF Len(type) = 0 \/ Len(type) > MaxTypeLen
    THEN "Type must be a string between 1 and 20 characters"
    ELSE IF ~MatchesWord(type)
    THEN "Type must contain only letters, numbers, and underscores"
    ELSE ""

\* "Ensure userId is a SHA256 hash"
ensureHashed(userId) ==
    IF Len(userId) # HashLen THEN sha256hex(userId) ELSE userId

getTTLTimestamp(t) == t - TTL_DAYS

\* INSERT OR REPLACE with a UNIQUE constraint on objectId alone (a variant of
\* insertOrReplace used to test the properties)
insertOrReplace_UniqueObjectId(table, objectId, userId, type, data, t) ==
    [r \in {x \in DOMAIN table : x.objectId # objectId} |-> table[r]]
    (+) SetToBag({[objectId |-> objectId, userId |-> userId, type |-> type,
                  data |-> data, created_at |-> t]})

\* INSERT OR REPLACE INTO objects (objectId, userId, type, data, created_at): the
\* only uniqueness constraint is on id, which defaults to lower(hex(randomblob(16))),
\* a value no row has yet; so nothing is replaced and the table gains a row
insertOrReplace(table, objectId, userId, type, data, t) ==
    table (+) SetToBag({[objectId |-> objectId, userId |-> userId, type |-> type,
                         data |-> data, created_at |-> t]})

\* DELETE FROM objects WHERE created_at <= ? (a variant of deleteOlderThan used to
\* test the properties)
deleteOlderThan_Inclusive(table, cutoff) ==
    [r \in {x \in DOMAIN table : ~(x.created_at <= cutoff)} |-> table[r]]

\* DELETE FROM objects WHERE created_at < ?
deleteOlderThan(table, cutoff) ==
    [r \in {x \in DOMAIN table : ~(x.created_at < cutoff)} |-> table[r]]

\* WHERE userId = ? AND created_at >= ? (a variant of visibleOf used to test the
\* properties)
visibleOf_AnyType(table, userId, type, ttlTimestamp) ==
    [r \in {x \in DOMAIN table : /\ x.userId = userId
                                 /\ x.created_at >= ttlTimestamp} |-> table[r]]

\* WHERE userId = ? AND type = ? AND created_at >= ?
visibleOf(table, userId, type, ttlTimestamp) ==
    [r \in {x \in DOMAIN table : /\ x.userId = userId
                                 /\ x.type = type
                                 /\ x.created_at >= ttlTimestamp} |-> table[r]]

\* WHERE objectId = ? AND created_at >= ?
visibleById(table, objectId, ttlTimestamp) ==
    {r \in DOMAIN table : r.objectId = objectId /\ r.created_at >= ttlTimestamp}

\* SELECT ... ORDER BY created_at DESC: every order of the rows that is
\* non-increasing in created_at (SQL leaves the order of ties open); a newest row
\* comes first, followed by an order of the remaining rows
RECURSIVE orderByCreatedAtDesc(_)
orderByCreatedAtDesc(rows) ==
    IF DOMAIN rows = {} THEN {<< >>}
    ELSE LET newest == {r \in DOMAIN rows :
                           \A x \in DOMAIN rows : x.created_at <= r.created_at}
         IN  UNION {{<<r>> \o s : s \in orderByCreatedAtDesc(rows (-) SetToBag({r}))} :
                    r \in newest}

\* objects.map(...) of GET /fetch/:type/:userId
objectList(rows) ==
    [i \in DOMAIN rows |->
        [objectId |-> rows[i].objectId, size |-> Len(rows[i].data),
         createdAt |-> rows[i].created_at,
         expiresAt |-> rows[i].created_at + EXPIRES_DAYS]]

\* the pagination object of GET /fetch/:type/:userId
pagination(page, count) ==
    [page |-> page, limit |-> limit, totalObjects |-> count,
     totalPages |-> ceilDiv(count, limit),
     hasNextPage |-> page < ceilDiv(count, limit),
     hasPrevPage |-> page > 1]

\* POST /save/:type/:userId/:objectId
PostSave(type, userId, objectId, data) ==
    /\ server = "app"
    /\ running
    /\ now \in SaveTimes
    /\ IF Len(data) = 0
       THEN /\ res' = [op |-> "save", status |-> 400, error |-> "No data provided"]
            /\ UNCHANGED objects
       ELSE IF validateTypeError(type) # ""
       THEN /\ res' = [op |-> "save", status |-> 400, error |-> validateTypeError(type)]
            /\ UNCHANGED objects
       ELSE /\ BagCardinality(objects) < MaxRows
            /\ objects' = insertOrReplace(objects, objectId, ensureHashed(userId),
                                          type, data, now)
            /\ res' = [op |-> "save", status |-> 201, type |-> type,
                       userId |-> ensureHashed(userId), objectId |-> objectId,
                       size |-> Len(data), expiresAt |-> now + EXPIRES_DAYS]
    /\ UNCHANGED <<server, now, objectsB, nextSweep, running>>

\* GET /fetch/:type/:userId?page=
GetFetch(type, userId, query) ==
    /\ server = "app"
    /\ running
    /\ IF validateTypeError(type) # ""
       THEN res' = [op |-> "fetch", status |-> 400, error |-> validateTypeError(type)]
       ELSE LET page    == pageOf(query)
                offset  == (page - 1) * limit
                uid     == ensureHashed(userId)
                visible == visibleOf(objects, uid, type, getTTLTimestamp(now))
            IN  \E ordered \in orderByCreatedAtDesc(visible) :
                  res' = [op |-> "fetch", status |-> 200, type |-> type, userId |-> uid,
                          rows |-> limitOffset(ordered, limit, offset),
                          objects |-> objectList(limitOffset(ordered, limit, offset)),
                          pagination |-> pagination(page, BagCardinality(visible))]
    /\ UNCHANGED <<server, now, objects, objectsB, nextSweep, running>>

\* GET /object/:objectId (stmt.get gives one matching row; SQL leaves open which)
GetObject(objectId) ==
    /\ server = "app"
    /\ running
    /\ LET visible == visibleById(objects, objectId, getTTLTimestamp(now))
       IN  IF visible = {}
           THEN res' = [op |-> "object", status |-> 404, objectId |-> objectId,
                        error |-> "Object not found or expired"]
           ELSE \E object \in visible :
                  res' = [op |-> "object", status |-> 200, objectId |-> objectId,
                          object |-> object, body |-> object.data,
                          contentLength |-> Len(object.data)]
    /\ UNCHANGED <<server, now, objects, objectsB, nextSweep, running>>

\* cleanupExpiredItems (the function body)
cleanupExpiredItems ==
    /\ objects' = deleteOlderThan(objects, getTTLTimestamp(now))
    /\ res' = [op |-> "cleanup", cutoff |-> getTTLTimestamp(now),
               changes |-> BagCardinality(objects) - BagCardinality(objects')]

\* the setInterval timer of app.js fires
TimerFires ==
    /\ server = "app"
    /\ running
    /\ now >= nextSweep
    /\ cleanupExpiredItems
    /\ nextSweep' = nextSweep + INTERVAL_DAYS
    /\ UNCHANGED <<server, now, objectsB, running>>

\* the process of app.js is started again on the same data/storage.db:
\* CREATE TABLE IF NOT EXISTS keeps the rows, cleanupExpiredItems() runs, and
\* setInterval starts a new timer
StartProcess ==
    /\ server = "app"
    /\ cleanupExpiredItems
    /\ nextSweep' = now + INTERVAL_DAYS
    /\ running' = TRUE
    /\ UNCHANGED <<server, now, objectsB>>

\* db.prepare(...).run(...) of cleanupExpiredItems throws; no try/catch encloses
\* it, neither in the function nor at its two call sites.  In the timer callback
\* the exception is uncaught and node ends the process, the timer with it
TimerFiresThrows ==
    /\ server = "app"
    /\ running
    /\ now >= nextSweep
    /\ running' = FALSE
    /\ nextSweep' = NoTimer
    /\ res' = [op |-> "uncaughtException", at |-> "timer"]
    /\ UNCHANGED <<server, now, objects, objectsB>>

\* the same throw in the call at module level: the exception ends the start of
\* the process before setInterval and app.listen are reached
StartProcessThrows ==
    /\ server = "app"
    /\ running' = FALSE
    /\ nextSweep' = NoTimer
    /\ res' = [op |-> "uncaughtException", at |-> "start"]
    /\ UNCHANGED <<server, now, objects, objectsB>>

---------------------------------------------------------------------------
(* src/unnamed/part_000 *)

hashUserId(userId) == sha256hex(userId)

RECURSIVE stringifyPairs(_, _)
stringifyPairs(obj, i) ==
    IF i > Len(obj) THEN ""
    ELSE (IF i > 1 THEN "," ELSE "") \o "\"" \o obj[i][1] \o "\":"
         \o digitChar(obj[i][2]) \o stringifyPairs(obj, i + 1)

\* JSON.stringify of an object whose values are digits
JSON_stringify(obj) == "{" \o stringifyPairs(obj, 1) \o "}"

RECURSIVE parsePairs(_, _)
parsePairs(text, i) ==
    IF CharAt(text, i) = "}" THEN << >>
    ELSE LET open  == IF CharAt(text, i) = "," THEN i + 1 ELSE i
             close == CHOOSE j \in (open + 1)..Len(text) :
                         /\ CharAt(text, j) = "\""
                         /\ \A k \in (open + 1)..(j - 1) : CharAt(text, k) # "\""
         IN  << <<SubSeq(text, open + 1, close - 1),
                  digitValue(CharAt(text, close + 2))>> >>
             \o parsePairs(text, close + 3)

\* JSON.parse of such a text
JSON_parse(text) == parsePairs(text, 2)

\* INSERT INTO objects with no primary key on objectId (a variant of
\* insertOrReplaceB used to test the properties)
insertOrReplaceB_NoPrimaryKey(table, objectId, userId, entry, t) ==
    table
    \cup {[objectId |-> objectId, userId |-> userId, entry |-> entry, created_at |-> t]}

\* INSERT OR REPLACE INTO objects (objectId, userId, entry, created_at) with
\* objectId TEXT PRIMARY KEY: the row with this objectId, if any, is replaced
insertOrReplaceB(table, objectId, userId, entry, t) ==
    {r \in table : r.objectId # objectId}
    \cup {[objectId |-> objectId, userId |-> userId, entry |-> entry, created_at |-> t]}

\* DELETE FROM objects WHERE created_at < ?
deleteOlderThanB(table, cutoff) == {r \in table : ~(r.created_at < cutoff)}

\* SELECT entry ... ORDER BY created_at DESC
orderByCreatedAtDescB(rows) ==
    {s \in [1..Cardinality(rows) -> rows] :
        /\ \A i, j \in DOMAIN s : i # j => s[i] # s[j]
        /\ \A i, j \in DOMAIN s : i < j => s[i].created_at >= s[j].created_at}

\* POST /save/:userId
PostSaveB(userId, body) ==
    /\ server = "part_000"
    /\ running
    /\ now \in SaveTimes
    /\ LET hashedUserId == hashUserId(userId)
           data         == JSON_stringify(body)
       IN  IF Len(data) = 0
           THEN /\ res' = [op |-> "save", status |-> 500,
                           error |-> "Failed to store object"]
                /\ UNCHANGED objectsB
           ELSE LET objectId == hashUserId(data \o hashedUserId)
                IN  /\ Cardinality(insertOrReplaceB(objectsB, objectId, hashedUserId,
                                                    data, now)) <= MaxRows
                    /\ objectsB' = insertOrReplaceB(objectsB, objectId, hashedUserId,
                                                    data, now)
                    /\ res' = [op |-> "save", status |-> 200, success |-> TRUE,
                               objectId |-> objectId,
                               expiresAt |-> now + EXPIRES_DAYS]
    /\ UNCHANGED <<server, now, objects, nextSweep, running>>

\* GET /fetch/:userId/:page
GetFetchB(userId, pageParam) ==
    /\ server = "part_000"
    /\ running
    /\ LET page         == pageOf(pageParam)
           hashedUserId == hashUserId(userId)
           offset       == (page - 1) * limitB
           mine         == {r \in objectsB : r.userId = hashedUserId}
           totalCount   == Cardinality(mine)
       IN  \E ordered \in orderByCreatedAtDescB(mine) :
             LET rows == limitOffset(ordered, limitB, offset)
             IN  IF Len(rows) = 0
                 THEN res' = [op |-> "fetch", status |-> 404, error |-> "No data found"]
                 ELSE res' = [op |-> "fetch", status |-> 200, userId |-> hashedUserId,
                              page |-> page, limit |-> limitB,
                              totalPages |-> ceilDiv(totalCount, limitB),
                              totalCount |-> totalCount,
                              hasNextPage |-> offset + limitB < totalCount,
                              hasPreviousPage |-> page > 1,
                              rows |-> rows,
                              data |-> [i \in DOMAIN rows |-> JSON_parse(rows[i].entry)]]
    /\ UNCHANGED <<server, now, objects, objectsB, nextSweep, running>>

\* the value of an SQL NULL, and of null in a JSON response
Null == "null"

\* SELECT COUNT(*) FROM objects
countAll(table) == Cardinality(table)

\* SELECT COUNT(userId) FROM objects (a variant of countDistinctUserId used to
\* test the properties)
countDistinctUserId_NotDistinct(table) == Cardinality(table)

\* SELECT COUNT(DISTINCT userId) FROM objects
countDistinctUserId(table) == Cardinality({r.userId : r \in table})

\* SELECT SUM(LENGTH(entry)) FROM objects: NULL over no rows
RECURSIVE sumLengthEntry(_)
sumLengthEntry(table) ==
    IF table = {} THEN Null
    ELSE LET r    == CHOOSE x \in table : TRUE
             rest == table \ {r}
         IN  IF rest = {} THEN Len(r.entry) ELSE Len(r.entry) + sumLengthEntry(rest)

\* GET /server
GetServer ==
    /\ server = "part_000"
    /\ running
    /\ res' = [op |-> "server", status |-> 200, body_status |-> "ok",
               totalEntries |-> countAll(objectsB),
               totalUsers |-> countDistinctUserId(objectsB),
               totalSize |-> sumLengthEntry(objectsB)]
    /\ UNCHANGED <<server, now, objects, objectsB, nextSweep, running>>

\* deleteOldEntries, run by the setInterval timer of part_000
deleteOldEntries ==
    /\ server = "part_000"
    /\ running
    /\ now >= nextSweep
    /\ objectsB' = deleteOlderThanB(objectsB, now - CLEANUP_DAYS_B)
    /\ res' = [op |-> "cleanup", cutoff |-> now - CLEANUP_DAYS_B]
    /\ nextSweep' = nextSweep + INTERVAL_DAYS
    /\ UNCHANGED <<server, now, objects, running>>

\* the process of part_000 is started again on the same data/storage.db:
\* CREATE TABLE IF NOT EXISTS keeps the rows and setInterval starts a new timer;
\* no cleanup runs at start
StartProcessB ==
    /\ server = "part_000"
    /\ nextSweep' = now + INTERVAL_DAYS
    /\ running' = TRUE
    /\ res' = [op |-> "start"]
    /\ UNCHANGED <<server, now, objects, objectsB>>

\* db.prepare(...).run(...) of deleteOldEntries throws in the timer callback; no
\* try/catch encloses it, the exception is uncaught and node ends the process
deleteOldEntriesThrows ==
    /\ server = "part_000"
    /\ running
    /\ now >= nextSweep
    /\ running' = FALSE
    /\ nextSweep' = NoTimer
    /\ res' = [op |-> "uncaughtException", at |-> "timer"]
    /\ UNCHANGED <<server, now, objects, objectsB>>

---------------------------------------------------------------------------
(* The clock, and the specification *)

\* time passes with no handler running; the timer of a running process fires
\* when it is due, before the clock moves on
Tick ==
    /\ now < MaxNow
    /\ running => now < nextSweep
    /\ now' = now + 1
    /\ res' = [op |-> "idle"]
    /\ UNCHANGED <<server, objects, objectsB, nextSweep, running>>

\* a first start of either server on an empty data directory
Init ==
    /\ server \in {"app", "part_000"}
    /\ now = 0
    /\ objects = EmptyBag
    /\ objectsB = {}
    /\ nextSweep = INTERVAL_DAYS
    /\ running = TRUE
    /\ res = IF server = "app"
             THEN [op |-> "cleanup", cutoff |-> getTTLTimestamp(0), changes |-> 0]
             ELSE [op |-> "start"]

Next ==
    \/ \E type \in Types, userId \in UserIds, objectId \in ObjectIds, data \in Bodies :
          PostSave(type, userId, objectId, data)
    \/ \E type \in Types, userId \in UserIds, query \in PageQueries :
          GetFetch(type, userId, query)
    \/ \E objectId \in ObjectIds : GetObject(objectId)
    \/ TimerFires
    \/ TimerFiresThrows
    \/ StartProcess
    \/ StartProcessThrows
    \/ \E userId \in UserIdsB, body \in BodiesB : PostSaveB(userId, body)
    \/ \E userId \in UserIdsB, pageParam \in PageParams : GetFetchB(userId, pageParam)
    \/ GetServer
    \/ deleteOldEntries
    \/ deleteOldEntriesThrows
    \/ StartProcessB
    \/ Tick

Spec == Init /\ [][Next]_vars

---------------------------------------------------------------------------
(* The read paths over larger tables: lists that span more than one page *)

\* app.js: a row that POST /save/:type/:userId/e1 has stored
StoredRow(userId, type, data, t) ==
    [objectId |-> "e1", userId |-> ensureHashed(userId), type |-> type,
     data |-> data, created_at |-> t]

\* n rows that differ only in the random id
copies(row, n) == IF n = 0 THEN EmptyBag ELSE [r \in {row} |-> n]

\* app.js: tables that saves at days 0 and 1 leave: up to MaxCopies rows of one
\* owner and category saved at day 1, and at most one row each with another
\* payload saved the same day, saved the day before, of another owner, and of
\* another category
TablesRead ==
    {copies(StoredRow(Alice, "note", "a", 1), x)
       (+) copies(StoredRow(Alice, "note", "bc", 1), y)
       (+) copies(StoredRow(Alice, "note", "a", 0), z)
       (+) copies(StoredRow(Z64, "note", "a", 1), w)
       (+) copies(StoredRow(Alice, "memo", "a", 1), v) :
          x \in 0..MaxCopies, y \in 0..1, z \in 0..1, w \in 0..1, v \in 0..1}

\* part_000: the row that POST /save/:userId stores at time t
StoredRowB(userId, body, t) ==
    [objectId |-> hashUserId(JSON_stringify(body) \o hashUserId(userId)),
     userId |-> hashUserId(userId), entry |-> JSON_stringify(body), created_at |-> t]

\* part_000: tables that saves at days 0 and 1 leave
TablesReadB ==
    {{StoredRowB(k[1], k[2], t[k]) : k \in saved} :
        saved \in SUBSET (UserIdsB \X BodiesB), t \in [UserIdsB \X BodiesB -> SaveTimes]}

\* the requests of the read paths
TypesRead == {"note", "memo"}
UserIdsRead == {Alice, Z64}
PageQueriesRead == {"", "2", "3"}
\* the times at which they arrive: the day of the last save, and the day on which
\* a row saved at day 0 has passed its 25 days while one saved at day 1 has not
ReadTimes == {1, TTL_DAYS + 1}

\* the process runs, its timer is due, and requests are served before the timer's
\* callback
InitRead ==
    /\ server \in {"app", "part_000"}
    /\ now \in ReadTimes
    /\ objects \in (IF server = "app" THEN TablesRead ELSE {EmptyBag})
    /\ objectsB \in (IF server = "part_000" THEN TablesReadB ELSE {{}})
    /\ nextSweep = now
    /\ running = TRUE
    /\ res = [op |-> "idle"]

NextRead ==
    \/ \E type \in TypesRead, userId \in UserIdsRead, query \in PageQueriesRead :
          GetFetch(type, userId, query)
    \/ \E userId \in UserIdsB, pageParam \in PageParams : GetFetchB(userId, pageParam)

SpecRead == InitRead /\ [][NextRead]_vars

---------------------------------------------------------------------------
(* Properties *)

IsLowerHex64(s) ==
    /\ Len(s) = 64
    /\ \A i \in 1..Len(s) : CharAt(s, i) \in LowerHexDigit

\* the rows of app.js's table saved under a key (ownerKey, category, externalId)
RowsOfKey(userId, type, objectId) ==
    {r \in DOMAIN objects : r.userId = userId /\ r.type = type /\ r.objectId = objectId}

RECURSIVE SumCopies(_, _)
SumCopies(bag, rows) ==
    IF rows = {} THEN 0
    ELSE LET r == CHOOSE x \in rows : TRUE
         IN  bag[r] + SumCopies(bag, rows \ {r})

\* C1: upsert determinism. There is at most one row per key (ownerKey, category,
\* externalId), and right after a successful save the table holds exactly one row
\* for the saved key, carrying the saved payload and createdAt = the time of the save.
C1_UpsertOneRowPerKey ==
    /\ \A r \in DOMAIN objects :
          SumCopies(objects, RowsOfKey(r.userId, r.type, r.objectId)) <= 1
    /\ (server = "app" /\ res.op = "save" /\ res.status = 201) =>
          \E r \in DOMAIN objects :
             /\ RowsOfKey(res.userId, res.type, res.objectId) = {r}
             /\ objects[r] = 1
             /\ Len(r.data) = res.size
             /\ r.created_at = now

\* C2: TTL visibility. No read path (fetch by externalId, list by owner and
\* category, list by owner) returns an entry whose age now - createdAt exceeds the
\* 25-day TTL, whether or not the sweeper has removed the row.
C2_NoExpiredEntryReturned ==
    /\ (res.op = "fetch" /\ res.status = 200) =>
          \A i \in DOMAIN res.rows : now - res.rows[i].created_at <= TTL_DAYS
    /\ (res.op = "object" /\ res.status = 200) =>
          now - res.object.created_at <= TTL_DAYS

\* C3: retention until the reported expiry. A row that has not reached
\* expiresAt = createdAt + 25 days after a step is still in the table after it,
\* unless the step is a save that overwrites it; so no sweeper run deletes a row
\* with createdAt >= now - 25 days.
C3_RetainedUntilExpiry ==
    [][/\ \A r \in DOMAIN objects :
             now' - r.created_at <= EXPIRES_DAYS =>
                (r \in DOMAIN objects' /\ objects'[r] >= objects[r])
       /\ \A r \in objectsB :
             (now' - r.created_at <= EXPIRES_DAYS /\ r \notin objectsB') =>
                (res'.op = "save" /\ \E x \in objectsB' : x.objectId = r.objectId)
      ]_vars

\* C4: read-your-writes. A fetch by externalId e that succeeds returns the payload
\* of the latest save under e (a row stored under e that no row stored under e is
\* newer than); and it fails only when no unexpired row is stored under e.
C4_ReadYourWrites ==
    /\ (res.op = "object" /\ res.status = 200) =>
          \E latest \in DOMAIN objects :
             /\ latest.objectId = res.objectId
             /\ \A r \in DOMAIN objects :
                   r.objectId = res.objectId => r.created_at <= latest.created_at
             /\ res.body = latest.data
    /\ (res.op = "object" /\ res.status = 404) =>
          \A r \in DOMAIN objects :
             r.objectId = res.objectId => now - r.created_at > TTL_DAYS

\* C5: sweep correctness. Right after a sweeper run with cutoff c the table holds
\* no row with createdAt < c, and every row that had createdAt >= c before the run
\* is still there, unchanged (and no row is added).
C5_SweepCorrect ==
    [][res'.op = "cleanup" =>
          /\ \A r \in DOMAIN objects' : r.created_at >= res'.cutoff
          /\ \A r \in DOMAIN objects :
                r.created_at >= res'.cutoff =>
                   (r \in DOMAIN objects' /\ objects'[r] = objects[r])
          /\ \A r \in DOMAIN objects' : r \in DOMAIN objects
          /\ \A r \in objectsB' : r.created_at >= res'.cutoff
          /\ \A r \in objectsB : r.created_at >= res'.cutoff => r \in objectsB'
          /\ objectsB' \subseteq objectsB
      ]_vars

\* a sweeper run has deleted a row and kept another
C5_Witness ==
    /\ res.op = "cleanup"
    /\ server = "app"
    /\ res.changes > 0
    /\ objects # EmptyBag

\* totalPages = ceil(totalCount / pageSize), stated without division
IsCeilOf(totalPages, totalCount, pageSize) ==
    /\ totalPages * pageSize >= totalCount
    /\ (totalPages - 1) * pageSize < totalCount
    /\ totalPages >= 0

\* C6: pagination boundaries. A list request for a page beyond the last page is
\* answered successfully with an empty item sequence and hasNext = false, and every
\* list response reports totalPages = ceil(totalCount / pageSize).
C6_PaginationBoundaries ==
    [][/\ \A type \in Types, userId \in UserIds, query \in PageQueries :
             (GetFetch(type, userId, query) /\ validateTypeError(type) = "") =>
                /\ res'.status = 200
                /\ IsCeilOf(res'.pagination.totalPages, res'.pagination.totalObjects,
                            limit)
                /\ (pageOf(query) > res'.pagination.totalPages =>
                      (res'.objects = << >> /\ ~res'.pagination.hasNextPage))
       /\ \A userId \in UserIdsB, pageParam \in PageParams :
             GetFetchB(userId, pageParam) =>
                /\ res'.status = 200
                /\ IsCeilOf(res'.totalPages, res'.totalCount, limitB)
                /\ (pageOf(pageParam) > res'.totalPages =>
                      (res'.data = << >> /\ ~res'.hasNextPage))
      ]_vars

\* C7: canonical owner keys only. Every stored row's ownerKey is a 64-character
\* lowercase hex digest.
C7_CanonicalOwnerKeys ==
    /\ \A r \in DOMAIN objects : IsLowerHex64(r.userId)
    /\ \A r \in objectsB : IsLowerHex64(r.userId)

\* canonicalize of the specification: the digest, or the input itself when it has
\* the shape of a digest
canonicalize(raw) == IF IsLowerHex64(raw) THEN raw ELSE sha256hex(raw)

\* C8: canonicalizer pass-through. A list request that supplies canonicalize(r)
\* lists the entries saved with the raw identifier r (as a request that supplies r
\* does): every such entry that is not expired is counted, and page 1 holds it.
C8_CanonicalizerPassThrough ==
    [][/\ \A raw \in UserIds : \A supplied \in {raw, canonicalize(raw)} :
             GetFetch("note", supplied, "") =>
                \A r \in DOMAIN objects :
                   (/\ r.userId = ensureHashed(raw)
                    /\ r.type = "note"
                    /\ now - r.created_at <= TTL_DAYS) =>
                      \E i \in DOMAIN res'.rows : res'.rows[i] = r
       /\ \A raw \in UserIdsB : \A supplied \in {raw, canonicalize(raw)} :
             GetFetchB(supplied, "1") =>
                \A r \in objectsB :
                   r.userId = hashUserId(raw) =>
                      /\ res'.status = 200
                      /\ \E i \in DOMAIN res'.rows : res'.rows[i] = r
      ]_vars

\* a category that the validator must reject
InvalidCategory(type) ==
    \/ Len(type) = 0
    \/ Len(type) > 20
    \/ \E i \in 1..Len(type) :
          CharAt(type, i) \notin Lower \cup Upper \cup Digit \cup {"_"}

\* C9: fail-fast validation. A save request whose category is invalid or whose
\* payload is empty ends in a client error and leaves the table as it was.
C9_FailFastValidation ==
    [][\A type \in Types, userId \in UserIds, objectId \in ObjectIds, data \in Bodies :
          (/\ server = "app"
           /\ res'.op = "save"
           /\ PostSave(type, userId, objectId, data)
           /\ InvalidCategory(type) \/ Len(data) = 0) =>
                (res'.status = 400 /\ objects' = objects)
      ]_vars

\* a save request has been rejected while the table holds a row
C9_Witness ==
    /\ server = "app"
    /\ res.op = "save"
    /\ res.status = 400
    /\ objects # EmptyBag

\* C10: stored-row validity. Every row of the table has a non-empty payload and a
\* category of 1 to 20 characters drawn from [A-Za-z0-9_].
C10_StoredRowsValid ==
    \A r \in DOMAIN objects :
       /\ Len(r.data) > 0
       /\ ~InvalidCategory(r.type)

\* a save has stored a row and the sweeper has run over the table since
C10_Witness ==
    /\ server = "app"
    /\ res.op = "cleanup"
    /\ objects # EmptyBag

\* C11: sweeper schedule. Every start of the process that leaves it running has
\* run the sweeper once (no row older than the sweeper's cutoff is left) before a
\* request is served; and from then on the clock of a running process never
\* passes the 24-hour deadline of the next run, which a run moves on by 24 hours.
C11_SweeperSchedule ==
    [][/\ ((StartProcess \/ StartProcessB) /\ running') =>
             /\ res'.op = "cleanup"
             /\ \A r \in DOMAIN objects' : r.created_at >= res'.cutoff
             /\ \A r \in objectsB' : r.created_at >= res'.cutoff
       /\ (running /\ running' /\ now' > now) => now' <= nextSweep
       /\ (running /\ running' /\ nextSweep' # nextSweep) =>
             nextSweep' = now + INTERVAL_DAYS
      ]_vars

\* C12: sweeper failure containment. After a sweeper run in which the storage
\* operation has thrown, the process runs and its timer is set for the next run.
C12_SweeperFailureContained ==
    res.op = "uncaughtException" => (running /\ nextSweep > now)

\* C13: idempotent content-addressed save (part_000). A save of payload p for
\* owner o returns a key under which the table then holds exactly one row, with
\* p, o and createdAt = the time of this save; a row that an earlier save of the
\* same p and o left has this same key, and every row with another payload or
\* another owner is still in the table, unchanged.
C13_IdempotentSave ==
    [][\A userId \in UserIdsB, body \in BodiesB :
          PostSaveB(userId, body) =>
             LET saved == {r \in objectsB' : r.objectId = res'.objectId}
             IN  /\ res'.status = 200
                 /\ Cardinality(saved) = 1
                 /\ \A r \in saved : /\ r.created_at = now
                                     /\ r.entry = JSON_stringify(body)
                                     /\ r.userId = hashUserId(userId)
                 /\ \A r \in objectsB :
                       IF r.entry = JSON_stringify(body) /\ r.userId = hashUserId(userId)
                       THEN r.objectId = res'.objectId
                       ELSE r.objectId # res'.objectId /\ r \in objectsB'
      ]_vars

\* a save at day 1 has left its row, with createdAt = day 1, next to a row that
\* another save had stored at day 0
C13_Witness ==
    /\ server = "part_000"
    /\ res.op = "save"
    /\ now = 1
    /\ \E r \in objectsB : r.objectId = res.objectId /\ r.created_at = 1
    /\ \E r \in objectsB : r.objectId # res.objectId /\ r.created_at = 0

\* the non-expired rows of an owner and a category, as the claims describe them
ListedRows(userId, type) ==
    {r \in DOMAIN objects :
        r.userId = userId /\ r.type = type /\ now - r.created_at <= TTL_DAYS}

\* the items of pages 1..p of GET /fetch/:type/:userId, one after the other, when
\* the query of every page sees the rows in the order `ordered`
RECURSIVE PagesUpTo(_, _)
PagesUpTo(ordered, p) ==
    IF p = 0 THEN << >>
    ELSE PagesUpTo(ordered, p - 1) \o limitOffset(ordered, limit, (p - 1) * limit)

RECURSIVE PayloadLengths(_, _)
PayloadLengths(rows, i) ==
    IF i > Len(rows) THEN 0 ELSE Len(rows[i].entry) + PayloadLengths(rows, i + 1)

KeyOf(r) == <<r.userId, r.type, r.objectId>>

\* C16: only the sweeper removes data. A step that is not a sweeper run removes
\* the rows of no key; a successful save leaves every row with a key other than
\* the saved one as it was and adds no row under another key; a rejected save, a
\* read and a stats request leave the whole table as it was.
C16_OnlySweeperRemoves ==
    [][/\ res'.op # "cleanup" =>
             /\ \A r \in DOMAIN objects :
                   \E x \in DOMAIN objects' : KeyOf(x) = KeyOf(r)
             /\ \A r \in objectsB : \E x \in objectsB' : x.objectId = r.objectId
       /\ (server = "app" /\ res'.op = "save" /\ res'.status = 201) =>
             /\ \A r \in DOMAIN objects :
                   KeyOf(r) # <<res'.userId, res'.type, res'.objectId>> =>
                      (r \in DOMAIN objects' /\ objects'[r] = objects[r])
             /\ \A r \in DOMAIN objects' :
                   KeyOf(r) # <<res'.userId, res'.type, res'.objectId>> =>
                      r \in DOMAIN objects
       /\ (server = "part_000" /\ res'.op = "save" /\ res'.status = 200) =>
             /\ \A r \in objectsB : r.objectId # res'.objectId => r \in objectsB'
             /\ \A r \in objectsB' : r.objectId # res'.objectId => r \in objectsB
       /\ (\/ res'.op \in {"fetch", "object", "server"}
           \/ (res'.op = "save" /\ res'.status \notin {200, 201})) =>
             (objects' = objects /\ objectsB' = objectsB)
      ]_vars

\* a save has succeeded while the table holds a row of another owner, stored
\* under the same externalId
C16_Witness ==
    /\ server = "app"
    /\ res.op = "save"
    /\ res.status = 201
    /\ \E r \in DOMAIN objects :
          r.userId # res.userId /\ r.objectId = res.objectId /\ r.created_at < now

\* C17: owner and category isolation. Whatever the table holds, every entry of a
\* list response for owner o and category c is that of a row stored under o's
\* ownerKey (and, in app.js, category c), and totalCount is at most the number of
\* rows stored under that ownerKey (and category). (A step of the handler for a
\* request is looked for among the steps whose response answers that request.)
C17_OwnerCategoryIsolation ==
    [][/\ \A type \in TypesRead, userId \in UserIdsRead, query \in PageQueriesRead :
             (/\ server = "app"
              /\ res'.type = type
              /\ res'.userId = ensureHashed(userId)
              /\ res'.pagination.page = pageOf(query)
              /\ GetFetch(type, userId, query)) =>
                /\ res'.status = 200
                /\ Len(res'.objects) = Len(res'.rows)
                /\ \A i \in DOMAIN res'.rows :
                      /\ res'.rows[i] \in DOMAIN objects
                      /\ res'.rows[i].userId = ensureHashed(userId)
                      /\ res'.rows[i].type = type
                      /\ res'.objects[i].objectId = res'.rows[i].objectId
                      /\ res'.objects[i].createdAt = res'.rows[i].created_at
                      /\ res'.objects[i].size = Len(res'.rows[i].data)
                /\ res'.pagination.totalObjects
                      <= SumCopies(objects, {r \in DOMAIN objects :
                                               /\ r.userId = ensureHashed(userId)
                                               /\ r.type = type})
       /\ \A userId \in UserIdsB, pageParam \in PageParams :
             (/\ server = "part_000"
              /\ res'.status = 200
              /\ res'.userId = hashUserId(userId)
              /\ res'.page = pageOf(pageParam)
              /\ GetFetchB(userId, pageParam)) =>
                /\ Len(res'.data) = Len(res'.rows)
                /\ \A i \in DOMAIN res'.rows :
                      /\ res'.rows[i] \in objectsB
                      /\ res'.rows[i].userId = hashUserId(userId)
                      /\ JSON_stringify(res'.data[i]) = res'.rows[i].entry
                /\ res'.totalCount
                      <= Cardinality({r \in objectsB : r.userId = hashUserId(userId)})
      ]_vars

\* a list response with entries, over a table that also holds a row of another
\* owner and a row of the same owner in another category
C17_Witness ==
    /\ server = "app"
    /\ res.op = "fetch"
    /\ res.status = 200
    /\ Len(res.objects) > 0
    /\ \E r \in DOMAIN objects : r.userId # res.userId /\ r.type = res.type
    /\ \E r \in DOMAIN objects : r.userId = res.userId /\ r.type # res.type

\* positions (p - 1) * pageSize up to p * pageSize - 1 (counted from 0) of a list
PageItems(ordered, p, pageSize) ==
    SubSeq(ordered, (p - 1) * pageSize + 1,
           IF p * pageSize < Len(ordered) THEN p * pageSize ELSE Len(ordered))

\* C18: page parameter normalization. Every list response reports a page number
\* p >= 1, its items are positions (p - 1) * pageSize up to p * pageSize - 1 of the
\* ordered visible list, hasPrev is true exactly when p > 1, and hasNext is true
\* exactly when the list has an item beyond position p * pageSize - 1.
C18_PageNormalization ==
    /\ (server = "app" /\ res.op = "fetch" /\ res.status = 200) =>
          /\ res.pagination.page >= 1
          /\ \E ordered \in orderByCreatedAtDesc(
                   visibleOf(objects, res.userId, res.type, getTTLTimestamp(now))) :
                /\ res.rows = PageItems(ordered, res.pagination.page, limit)
                /\ res.pagination.hasNextPage
                      = (Len(ordered) > res.pagination.page * limit)
          /\ res.pagination.hasPrevPage = (res.pagination.page > 1)
    /\ (server = "part_000" /\ res.op = "fetch" /\ res.status = 200) =>
          /\ res.page >= 1
          /\ \E ordered \in orderByCreatedAtDescB(
                   {r \in objectsB : r.userId = res.userId}) :
                /\ res.rows = PageItems(ordered, res.page, limitB)
                /\ res.hasNextPage = (Len(ordered) > res.page * limitB)
          /\ res.hasPreviousPage = (res.page > 1)

====
